---- MODULE Spec2Model ----
(***************************************************************************)
(* Model of the four plotting scripts of plot_electro_chem:                *)
(*   plot_ca.py    generate_styled_plot   (one graph, charge vs. time)     *)
(*   plot_ca_j.py  generate_ca_subplots   (one panel per pH group)         *)
(*   plot_eis.py   plot_eis_data          (3x3 Nyquist / Bode figures)     *)
(*   plot_lsv.py   plot_lsv_data          (one panel per chemical)         *)
(* Python strings that the code inspects (file names, labels, keys) are    *)
(* sequences of one-character strings, so that substring tests, regular    *)
(* expressions and sorted() are computed as the code computes them.        *)
(***************************************************************************)
EXTENDS Integers, Sequences, FiniteSets, TLC

VARIABLES
    dir_exists,      \* whether 'CAs/' exists
    dir,             \* 'CAs/': file name -> content of the file
    ca_pc,           \* plot_ca.py: position in generate_styled_plot
    all_files,       \* plot_ca.py: all_files
    ca_i,            \* plot_ca.py: position of the for loop in all_files
    plot_index,      \* plot_ca.py: plot_index
    plot_label,      \* plot_ca.py: plot_label of every file the loop has seen
    curves,          \* plot_ca.py: the lines drawn on ax, in drawing order
    printed,         \* plot_ca.py: what was printed
    caj_pc,          \* plot_ca_j.py: position in generate_ca_subplots
    all_files_j,     \* plot_ca_j.py: all_files
    caj_i,           \* plot_ca_j.py: position of the grouping loop
    grouped_files,   \* plot_ca_j.py: grouped_files (ph_key -> file paths)
    cu_ref_path,     \* plot_ca_j.py: cu_ref_path
    ph_keys,         \* plot_ca_j.py: ph_keys
    axes,            \* plot_ca_j.py: the lines drawn on each panel
    panel,           \* plot_ca_j.py: i of the panel loop (1-based)
    file_k,          \* plot_ca_j.py: position of the loop over grouped_files[ph_key]
    plot_index_j,    \* plot_ca_j.py: plot_index
    printed_j,       \* plot_ca_j.py: what was printed
    eis_dir,         \* 'EIS/': file name -> content of the file
    eis_pc,          \* plot_eis.py: position in plot_eis_data
    eis_pending,     \* plot_eis.py: the paths glob.glob has still to yield
    experiment_ids,  \* plot_eis.py: the keys of experiment_files, in insertion order
    experiment_files,\* plot_eis.py: experiment_files (id -> file paths)
    eis_n,           \* plot_eis.py: position of the loop over experiment_files.values()
    grouped_plots,   \* plot_eis.py: grouped_plots (<<ph, condition, chemical>> -> paths)
    eis_panel,       \* plot_eis.py: the panel (i, j) of the loops, counted 1..9
    eis_k,           \* plot_eis.py: position of the loop over sorted experiments
    axes_nyquist,    \* plot_eis.py: the series drawn on each panel of fig_nyquist
    axes_bode1,      \* plot_eis.py: the series drawn on each panel of fig_bode1
    axes_bode2,      \* plot_eis.py: the series drawn on each panel of fig_bode2
    eis_saved,       \* plot_eis.py: the figures saved
    lsv_dir,         \* 'LSV/': file name -> content of the file
    lsv_pc,          \* plot_lsv.py: position in plot_lsv_data
    lsv_panel,       \* plot_lsv.py: position of the loop over zip(axes, chemicals)
    file_paths,      \* plot_lsv.py: file_paths of the panel
    lsv_k,           \* plot_lsv.py: position of the loop over file_paths
    lsv_axes,        \* plot_lsv.py: the curves drawn on each panel
    lsv_saved        \* plot_lsv.py: whether plt.savefig has run

caVars == <<ca_pc, all_files, ca_i, plot_index, plot_label, curves, printed>>
cajVars == <<caj_pc, all_files_j, caj_i, grouped_files, cu_ref_path, ph_keys, axes,
             panel, file_k, plot_index_j, printed_j>>
eisVars == <<eis_dir, eis_pc, eis_pending, experiment_ids, experiment_files, eis_n,
             grouped_plots, eis_panel, eis_k, axes_nyquist, axes_bode1, axes_bode2,
             eis_saved>>
lsvVars == <<lsv_dir, lsv_pc, lsv_panel, file_paths, lsv_k, lsv_axes, lsv_saved>>
\* what the chronoamperometry scripts never write
caEnv == <<dir_exists, dir, eisVars, lsvVars>>
vars == <<caEnv, caVars, cajVars>>

----------------------------------------------------------------------------
(* Strings *)

None == <<>>

\* The characters in use, in code point order: Python compares strings by code point.
Alphabet ==
    <<" ","(",")","+",".","/","0","1","2","3","4","5","6","7","8","9">>
    \o <<"A","B","C","D","E","F","G","H","I","J","K","L","M","N","O","P","Q","R","S",
         "T","U","V","W","X","Y","Z">>
    \o <<"_">>
    \o <<"a","b","c","d","e","f","g","h","i","j","k","l","m","n","o","p","q","r","s",
         "t","u","v","w","x","y","z">>

Ord == [c \in {Alphabet[i] : i \in 1..Len(Alphabet)} |->
          CHOOSE i \in 1..Len(Alphabet) : Alphabet[i] = c]

Digits == {"0","1","2","3","4","5","6","7","8","9"}

\* a < b on Python strings
StrLess(a, b) ==
    \E i \in 1..Len(b) :
        /\ i - 1 <= Len(a)
        /\ \A k \in 1..(i - 1) : a[k] = b[k]
        /\ (i > Len(a) \/ Ord[a[i]] < Ord[b[i]])

\* sorted(S) for a set of strings
RECURSIVE sorted(_)
sorted(S) ==
    IF S = {} THEN <<>>
    ELSE LET m == CHOOSE x \in S : \A y \in S \ {x} : StrLess(x, y)
         IN <<m>> \o sorted(S \ {m})

\* s[i:] starts with sub  (i is 1-based)
At(s, sub, i) ==
    /\ i >= 1
    /\ i + Len(sub) - 1 <= Len(s)
    /\ \A k \in 1..Len(sub) : s[i + k - 1] = sub[k]

\* sub in s
Contains(s, sub) == \E i \in 1..(Len(s) + 1) : At(s, sub, i)

\* s.endswith(suf)
EndsWith(s, suf) == At(s, suf, Len(s) - Len(suf) + 1)

\* the length of the longest run of digits of s that starts at i: what \d+ takes
DigitRun(s, i) ==
    CHOOSE n \in 0..(Len(s) + 1) :
        /\ \A k \in 0..(n - 1) : i + k <= Len(s) /\ s[i + k] \in Digits
        /\ (i + n > Len(s) \/ s[i + n] \notin Digits)

Min(S) == CHOOSE x \in S : \A y \in S : x <= y
Max(S) == CHOOSE x \in S : \A y \in S : x >= y

\* s.strip()
strip(s) ==
    LET keep == {i \in 1..Len(s) : s[i] # " "}
    IN IF keep = {} THEN <<>> ELSE SubSeq(s, Min(keep), Max(keep))

\* os.path.join(directory_path, filename), directory_path ending in "/"
join(directory_path, filename) == directory_path \o filename

\* os.path.basename(path)
basename(path) ==
    LET slashes == {i \in 1..Len(path) : path[i] = "/"}
    IN IF slashes = {} THEN path ELSE SubSeq(path, Max(slashes) + 1, Len(path))

\* re.search(r'pH(\d+)', filename): [matched, group]
search_ph(filename) ==
    LET starts == {i \in 1..Len(filename) :
                     At(filename, <<"p","H">>, i) /\ DigitRun(filename, i + 2) >= 1}
    IN IF starts = {} THEN [matched |-> FALSE, group |-> None]
       ELSE LET i == Min(starts)
            IN [matched |-> TRUE,
                group |-> SubSeq(filename, i + 2, i + 1 + DigitRun(filename, i + 2))]

\* re.search(r'pH\d+_(.*)\.txt', filename): [matched, group]
search_label(filename) ==
    LET ends(i) == {j \in (i + 3 + DigitRun(filename, i + 2))..Len(filename) :
                      At(filename, <<".","t","x","t">>, j)}
        starts == {i \in 1..Len(filename) :
                     /\ At(filename, <<"p","H">>, i)
                     /\ DigitRun(filename, i + 2) >= 1
                     /\ At(filename, <<"_">>, i + 2 + DigitRun(filename, i + 2))
                     /\ ends(i) # {}}
    IN IF starts = {} THEN [matched |-> FALSE, group |-> None]
       ELSE LET i == Min(starts)
            IN [matched |-> TRUE,
                group |-> SubSeq(filename, i + 3 + DigitRun(filename, i + 2),
                                 Max(ends(i)) - 1)]

----------------------------------------------------------------------------
(* The 'CAs/' directory *)

\* the most files of the name pool in one directory
MaxFiles == 3
\* the most system files pH1_A.txt, pH1_B.txt, ... in one directory
MaxBulk == 21

data_directory == <<"C","A","s","/">>

TIME == "Time (s)"
CURRENT == "WE(1).Current (A)"
CHARGE == "WE(1).Charge (C)"

\* what pd.read_csv(file_path, sep='\t') finds
Full == [readable |-> TRUE, columns |-> {TIME, CURRENT, CHARGE}, rows |-> 1]
NoRows == [readable |-> TRUE, columns |-> {TIME, CURRENT, CHARGE}, rows |-> 0]
NoTime == [readable |-> TRUE, columns |-> {CURRENT, CHARGE}, rows |-> 1]
Unreadable == [readable |-> FALSE, columns |-> {}, rows |-> 0]
Contents == {Full, NoRows, NoTime, Unreadable}

Cu_txt == <<"C","u",".","t","x","t">>
Cu_pH_txt == <<"C","u","_","p","H",".","t","x","t">>
pH1_A_txt == <<"p","H","1","_","A",".","t","x","t">>
pH4_B_txt == <<"p","H","4","_","B",".","t","x","t">>
pH1_Cu_txt == <<"p","H","1","_","C","u",".","t","x","t">>
pH7_txt == <<"p","H","7",".","t","x","t">>
notes_txt == <<"n","o","t","e","s",".","t","x","t">>
pH4_B_csv == <<"p","H","4","_","B",".","c","s","v">>

Pool == {Cu_txt, Cu_pH_txt, pH1_A_txt, pH4_B_txt, pH1_Cu_txt, pH7_txt, notes_txt,
         pH4_B_csv}

Letters == <<"A","B","C","D","E","F","G","H","I","J","K","L","M","N","O","P","Q","R",
             "S","T","U","V","W","X","Y","Z">>

BulkName(k) == <<"p","H","1","_", Letters[k], ".","t","x","t">>

\* directories of at most MaxFiles files of the pool, of any content (a file that
\* is no .txt file is never read: its content is left Full)
SmallDirs ==
    UNION {{d \in [S -> Contents] :
              \A n \in S : ~EndsWith(n, <<".","t","x","t">>) => d[n] = Full} :
           S \in {T \in SUBSET Pool : Cardinality(T) <= MaxFiles}}

\* directories of up to MaxBulk good pH 1 system files, with or without a
\* reference file and a pH 4 system file
BulkDirs ==
    {[n \in {BulkName(k) : k \in 1..b} \cup S |-> Full] :
        b \in 1..MaxBulk, S \in SUBSET {Cu_txt, pH4_B_txt}}

Dirs == SmallDirs \cup BulkDirs

\* os.listdir(directory_path), filtered and sorted
list_txt == sorted({f \in DOMAIN dir : EndsWith(f, <<".","t","x","t">>)})

\* pd.read_csv(file_path, sep='\t')
read_csv(file_path) == dir[basename(file_path)]

----------------------------------------------------------------------------
(* plot_ca.py: generate_styled_plot *)

markers == <<"o", "s", "^", "D", "v", "p", "*", "<", ">", "X">>
linestyles == <<"-", "--", "-.", ":">>

Cu == <<"C","u">>

\* the mutant of CA_PlotLabel: the elif "Cu" branch is lost
CA_PlotLabel_NoCu(filename) ==
    IF Contains(filename, <<"p","H">>)
    THEN LET match_ph == search_ph(filename)
             match_label == search_label(filename)
         IN IF match_ph.matched /\ match_label.matched
            THEN strip(match_label.group) \o <<" ","(","p","H"," ">>
                 \o match_ph.group \o <<")">>
            ELSE None
    ELSE None

\* plot_label of a file: None for a file the loop skips as unrecognised
CA_PlotLabel(filename) ==
    IF Contains(filename, <<"p","H">>)
    THEN LET match_ph == search_ph(filename)
             match_label == search_label(filename)
         IN IF match_ph.matched /\ match_label.matched
            THEN strip(match_label.group) \o <<" ","(","p","H"," ">>
                 \o match_ph.group \o <<")">>
            ELSE None
    ELSE IF Contains(filename, Cu) THEN Cu
    ELSE None

\* the mutant of CA_LoadAndPlot: plot_index += 1 moved out of the if
CA_LoadAndPlot_CountsAll(filename, label, index, drawn) ==
    LET data == read_csv(join(data_directory, filename))
    IN IF ~data.readable
       THEN [curves |-> drawn, plot_index |-> index, out |-> "error"]
       ELSE IF TIME \in data.columns /\ CHARGE \in data.columns
       THEN IF data.rows = 0
            THEN [curves |-> drawn, plot_index |-> index, out |-> "error"]
            ELSE [curves |-> Append(drawn,
                     [file |-> filename, label |-> label,
                      marker |-> markers[(index % Len(markers)) + 1],
                      linestyle |-> linestyles[(index % Len(linestyles)) + 1]]),
                  plot_index |-> index + 1, out |-> "plotted"]
       ELSE [curves |-> drawn, plot_index |-> index + 1, out |-> "warning"]

\* the try block of the loop body, for a recognised file: the curves and the
\* plot_index it leaves, and what it prints
CA_LoadAndPlot(filename, label, index, drawn) ==
    LET data == read_csv(join(data_directory, filename))
    IN IF ~data.readable
       THEN [curves |-> drawn, plot_index |-> index, out |-> "error"]
       ELSE IF TIME \in data.columns /\ CHARGE \in data.columns
       THEN IF data.rows = 0   \* .iloc[0] raises IndexError
            THEN [curves |-> drawn, plot_index |-> index, out |-> "error"]
            ELSE [curves |-> Append(drawn,
                     [file |-> filename, label |-> label,
                      marker |-> markers[(index % Len(markers)) + 1],
                      linestyle |-> linestyles[(index % Len(linestyles)) + 1]]),
                  plot_index |-> index + 1, out |-> "plotted"]
       ELSE [curves |-> drawn, plot_index |-> index, out |-> "warning"]

CAJ_Idle == caj_pc \in {"start", "done", "aborted"}
CA_Idle == ca_pc \in {"start", "done"}

\* lines 30-42: the figure, the styles, the listing
CA_Start ==
    /\ ca_pc = "start" /\ CAJ_Idle
    /\ IF dir_exists
       THEN /\ all_files' = list_txt
            /\ ca_pc' = "loop"
            /\ printed' = printed
       ELSE /\ all_files' = all_files
            /\ ca_pc' = "done"
            /\ printed' = Append(printed, [kind |-> "no_directory", file |-> None])
    /\ plot_index' = 0
    /\ ca_i' = 1
    /\ UNCHANGED <<plot_label, curves, caEnv, cajVars>>

\* lines 45-90: one iteration of the loop
CA_File ==
    /\ ca_pc = "loop" /\ ca_i <= Len(all_files)
    /\ LET filename == all_files[ca_i]
           label == CA_PlotLabel(filename)
       IN /\ plot_label' = [f \in DOMAIN plot_label \cup {filename} |->
                              IF f = filename THEN label ELSE plot_label[f]]
          /\ IF label = None
             THEN /\ printed' = Append(printed, [kind |-> "skipping", file |-> filename])
                  /\ UNCHANGED <<plot_index, curves>>
             ELSE LET r == CA_LoadAndPlot(filename, label, plot_index, curves)
                  IN /\ curves' = r.curves
                     /\ plot_index' = r.plot_index
                     /\ printed' = IF r.out = "plotted" THEN printed
                                   ELSE Append(printed, [kind |-> r.out, file |-> filename])
    /\ ca_i' = ca_i + 1
    /\ UNCHANGED <<ca_pc, all_files, caEnv, cajVars>>

\* lines 92-104: the legend, then fig.savefig, which may raise
CA_Save ==
    /\ ca_pc = "loop" /\ ca_i > Len(all_files)
    /\ \E ok \in BOOLEAN :
          printed' = Append(printed,
                        [kind |-> IF ok THEN "saved" ELSE "save_error", file |-> None])
    /\ ca_pc' = "done"
    /\ UNCHANGED <<all_files, ca_i, plot_index, plot_label, curves, caEnv,
                   cajVars>>

----------------------------------------------------------------------------
(* plot_ca_j.py: generate_ca_subplots *)

markers_j == <<"o", "s", "^", "D", "v">>
linestyles_j == <<"-", "--", "-.", ":">>

Cu_Reference == <<"C","u"," ","R","e","f","e","r","e","n","c","e">>

\* what plt.subplots(nrows, 1) gives: it raises ValueError for no row, and with
\* its default squeeze=True it returns one Axes, not an array, for one row
subplots(nrows) ==
    [raises |-> nrows = 0,
     subscriptable |-> nrows >= 2,
     panels |-> [i \in 1..nrows |-> <<>>]]

\* lines 40-46: what one file does to cu_ref_path and grouped_files
CAJ_Classify(filename, ref, groups) ==
    IF Contains(filename, Cu)
    THEN [cu_ref_path |-> join(data_directory, filename), grouped_files |-> groups]
    ELSE IF Contains(filename, <<"p","H">>) /\ search_ph(filename).matched
    THEN LET ph_key == <<"p","H"," ">> \o search_ph(filename).group
             old == IF ph_key \in DOMAIN groups THEN groups[ph_key] ELSE <<>>
         IN [cu_ref_path |-> ref,
             grouped_files |->
                 [k \in DOMAIN groups \cup {ph_key} |->
                    IF k = ph_key THEN Append(old, join(data_directory, filename))
                    ELSE groups[k]]]
    ELSE [cu_ref_path |-> ref, grouped_files |-> groups]

\* lines 62-71: the reference curve of one panel; the curves of the panel and
\* what is printed
CAJ_PlotReference(ref, drawn) ==
    IF ref = None THEN [curves |-> drawn, out |-> "nothing"]
    ELSE LET data_ref == read_csv(ref)
         IN IF ~data_ref.readable THEN [curves |-> drawn, out |-> "error"]
            ELSE IF TIME \in data_ref.columns /\ CURRENT \in data_ref.columns
            THEN IF data_ref.rows = 0   \* .iloc[0] raises IndexError
                 THEN [curves |-> drawn, out |-> "error"]
                 ELSE [curves |-> Append(drawn,
                          [file |-> basename(ref), label |-> Cu_Reference,
                           marker |-> "None", linestyle |-> "--"]),
                       out |-> "plotted"]
            ELSE [curves |-> drawn, out |-> "nothing"]

\* lines 75-95: one system file of a panel
CAJ_LoadAndPlot(file_path, index, drawn) ==
    LET filename == basename(file_path)
        match_label == search_label(filename)
        label == IF match_label.matched THEN strip(match_label.group) ELSE filename
        data == read_csv(file_path)
    IN IF ~data.readable
       THEN [curves |-> drawn, plot_index |-> index, out |-> "error"]
       ELSE IF TIME \in data.columns /\ CURRENT \in data.columns
       THEN IF data.rows = 0   \* .iloc[0] raises IndexError
            THEN [curves |-> drawn, plot_index |-> index, out |-> "error"]
            ELSE [curves |-> Append(drawn,
                     [file |-> filename, label |-> label,
                      marker |-> markers_j[(index % Len(markers_j)) + 1],
                      linestyle |-> linestyles_j[(index % Len(linestyles_j)) + 1]]),
                  plot_index |-> index + 1, out |-> "plotted"]
       ELSE [curves |-> drawn, plot_index |-> index, out |-> "warning"]

\* lines 31-37: the listing
CAJ_Start ==
    /\ caj_pc = "start" /\ CA_Idle
    /\ IF dir_exists
       THEN /\ all_files_j' = list_txt
            /\ caj_pc' = "group"
            /\ printed_j' = printed_j
       ELSE /\ all_files_j' = all_files_j
            /\ caj_pc' = "done"
            /\ printed_j' = Append(printed_j, [kind |-> "no_directory", file |-> None])
    /\ UNCHANGED <<caj_i, grouped_files, cu_ref_path, ph_keys, axes, panel, file_k,
                   plot_index_j, caEnv, caVars>>

\* lines 39-46: one iteration of the grouping loop
CAJ_Group ==
    /\ caj_pc = "group" /\ caj_i <= Len(all_files_j)
    /\ LET r == CAJ_Classify(all_files_j[caj_i], cu_ref_path, grouped_files)
       IN /\ cu_ref_path' = r.cu_ref_path
          /\ grouped_files' = r.grouped_files
    /\ caj_i' = caj_i + 1
    /\ UNCHANGED <<caj_pc, all_files_j, ph_keys, axes, panel, file_k, plot_index_j,
                   printed_j, caEnv, caVars>>

\* lines 49-54: the panels
CAJ_Subplots ==
    /\ caj_pc = "group" /\ caj_i > Len(all_files_j)
    /\ ph_keys' = sorted(DOMAIN grouped_files)
    /\ LET made == subplots(Len(ph_keys'))
       IN IF made.raises
          THEN caj_pc' = "aborted" /\ axes' = axes
          ELSE caj_pc' = "panel" /\ axes' = made.panels
    /\ panel' = 1
    /\ UNCHANGED <<all_files_j, caj_i, grouped_files, cu_ref_path, file_k, plot_index_j,
                   printed_j, caEnv, caVars>>

\* lines 57-71: ax = axes[i], plot_index = 0, the reference curve
CAJ_PanelReference ==
    /\ caj_pc = "panel" /\ panel <= Len(ph_keys)
    /\ IF ~subplots(Len(ph_keys)).subscriptable
       THEN \* axes[i] raises TypeError
            /\ caj_pc' = "aborted"
            /\ UNCHANGED <<axes, plot_index_j, file_k, printed_j>>
       ELSE LET r == CAJ_PlotReference(cu_ref_path, axes[panel])
            IN /\ axes' = [axes EXCEPT ![panel] = r.curves]
               /\ printed_j' = IF r.out = "error"
                               THEN Append(printed_j,
                                      [kind |-> "ref_error", file |-> cu_ref_path])
                               ELSE printed_j
               /\ plot_index_j' = 0
               /\ file_k' = 1
               /\ caj_pc' = "files"
    /\ UNCHANGED <<all_files_j, caj_i, grouped_files, cu_ref_path, ph_keys, panel,
                   caEnv, caVars>>

\* lines 74-95: one system file of the panel
CAJ_PanelFile ==
    /\ caj_pc = "files" /\ file_k <= Len(grouped_files[ph_keys[panel]])
    /\ LET file_path == grouped_files[ph_keys[panel]][file_k]
           r == CAJ_LoadAndPlot(file_path, plot_index_j, axes[panel])
       IN /\ axes' = [axes EXCEPT ![panel] = r.curves]
          /\ plot_index_j' = r.plot_index
          /\ printed_j' = IF r.out = "plotted" THEN printed_j
                          ELSE Append(printed_j,
                                 [kind |-> r.out, file |-> basename(file_path)])
    /\ file_k' = file_k + 1
    /\ UNCHANGED <<caj_pc, all_files_j, caj_i, grouped_files, cu_ref_path, ph_keys,
                   panel, caEnv, caVars>>

\* lines 97-101: the title, the legend and the grid of the panel
CAJ_PanelConfigure ==
    /\ caj_pc = "files" /\ file_k > Len(grouped_files[ph_keys[panel]])
    /\ panel' = panel + 1
    /\ caj_pc' = "panel"
    /\ UNCHANGED <<all_files_j, caj_i, grouped_files, cu_ref_path, ph_keys, axes,
                   file_k, plot_index_j, printed_j, caEnv, caVars>>

\* lines 103-111: axes[-1], tight_layout, then fig.savefig, which may raise
CAJ_Save ==
    /\ caj_pc = "panel" /\ panel > Len(ph_keys)
    /\ \E ok \in BOOLEAN :
          printed_j' = Append(printed_j,
                          [kind |-> IF ok THEN "saved" ELSE "save_error", file |-> None])
    /\ caj_pc' = "done"
    /\ UNCHANGED <<all_files_j, caj_i, grouped_files, cu_ref_path, ph_keys, axes, panel,
                   file_k, plot_index_j, caEnv, caVars>>

CA_Init ==
    /\ ca_pc = "start"
    /\ all_files = <<>>
    /\ ca_i = 1
    /\ plot_index = 0
    /\ plot_label = <<>>
    /\ curves = <<>>
    /\ printed = <<>>

CAJ_Init ==
    /\ caj_pc = "start"
    /\ all_files_j = <<>>
    /\ caj_i = 1
    /\ grouped_files = <<>>
    /\ cu_ref_path = None
    /\ ph_keys = <<>>
    /\ axes = <<>>
    /\ panel = 1
    /\ file_k = 1
    /\ plot_index_j = 0
    /\ printed_j = <<>>

CAs_Init ==
    /\ \/ dir_exists = TRUE /\ dir \in Dirs
       \/ dir_exists = FALSE /\ dir = <<>>
    /\ CA_Init
    /\ CAJ_Init

\* plot_eis.py is not run
EIS_Off ==
    /\ eis_dir = <<>>
    /\ eis_pc = "off"
    /\ eis_pending = {}
    /\ experiment_ids = <<>>
    /\ experiment_files = <<>>
    /\ eis_n = 1
    /\ grouped_plots = <<>>
    /\ eis_panel = 1
    /\ eis_k = 1
    /\ axes_nyquist = <<>>
    /\ axes_bode1 = <<>>
    /\ axes_bode2 = <<>>
    /\ eis_saved = {}

\* plot_lsv.py is not run
LSV_Off ==
    /\ lsv_dir = <<>>
    /\ lsv_pc = "off"
    /\ lsv_panel = 1
    /\ file_paths = <<>>
    /\ lsv_k = 1
    /\ lsv_axes = <<>>
    /\ lsv_saved = FALSE

\* the chronoamperometry scripts are not run
CAs_Off ==
    /\ dir_exists = FALSE
    /\ dir = <<>>
    /\ CA_Init
    /\ CAJ_Init

InitCA == CAs_Init /\ EIS_Off /\ LSV_Off

NextCA ==
    \/ CA_Start
    \/ CA_File
    \/ CA_Save
    \/ CAJ_Start
    \/ CAJ_Group
    \/ CAJ_Subplots
    \/ CAJ_PanelReference
    \/ CAJ_PanelFile
    \/ CAJ_PanelConfigure
    \/ CAJ_Save

SpecCA == InitCA /\ [][NextCA]_vars

----------------------------------------------------------------------------
(* Claims about the two chronoamperometry scripts, under SpecCA *)

TXT == <<".","t","x","t">>

\* a file generate_styled_plot has no curve for: unrecognised by name, not
\* loadable, without rows, or without one of its two columns
CA_Bad(f) ==
    \/ CA_PlotLabel(f) = None
    \/ ~dir[f].readable
    \/ dir[f].rows = 0
    \/ TIME \notin dir[f].columns
    \/ CHARGE \notin dir[f].columns

CA_IsGood(f) == ~CA_Bad(f)

\* C1: generate_ca_subplots, run on an existing directory, never aborts before
\* its save step, whatever the number of distinct pH values among the file names.
C1_AlwaysReachesSave == dir_exists => caj_pc # "aborted"

\* C4: in generate_styled_plot a file that is unrecognised, unloadable, empty or
\* without a needed column is skipped with a message and adds no curve; the
\* curves drawn are exactly the good files seen so far, in sorted order;
\* plot_index is the number of curves drawn; the run ends with the save step.
C4_SkippedFilesLeaveNoTrace ==
    (dir_exists /\ ca_pc \in {"loop", "done"}) =>
        LET seen == SubSeq(all_files, 1, ca_i - 1)
        IN /\ plot_index = Len(curves)
           /\ [k \in 1..Len(curves) |-> curves[k].file] = SelectSeq(seen, CA_IsGood)
           /\ \A k \in 1..Len(seen) :
                 CA_Bad(seen[k]) =>
                    \E m \in 1..Len(printed) :
                        /\ printed[m].file = seen[k]
                        /\ printed[m].kind \in {"skipping", "warning", "error"}
           /\ ca_pc = "done" =>
                 /\ ca_i = Len(all_files) + 1
                 /\ printed # <<>>
                 /\ printed[Len(printed)].kind \in {"saved", "save_error"}

\* C4's case: a finished run in which a skipped file came before a plotted one
C4_Witness ==
    /\ dir_exists /\ ca_pc = "done"
    /\ \E k, m \in 1..Len(all_files) :
          /\ k < m
          /\ CA_Bad(all_files[k])
          /\ \E c \in 1..Len(curves) : curves[c].file = all_files[m]

StyleOf(curve) == <<curve.marker, curve.linestyle>>

\* C5: any two distinct curves of generate_styled_plot's graph differ in their
\* (marker, linestyle) pair, and so do any two system curves of one panel of
\* generate_ca_subplots.
C5_UniqueStyles ==
    /\ \A a, b \in 1..Len(curves) : a # b => StyleOf(curves[a]) # StyleOf(curves[b])
    /\ \A p \in 1..Len(axes) :
          \A a, b \in 1..Len(axes[p]) :
             (a # b /\ axes[p][a].label # Cu_Reference /\ axes[p][b].label # Cu_Reference)
                => StyleOf(axes[p][a]) # StyleOf(axes[p][b])

\* the .txt files with 'Cu' in their name that are readable and have both columns
GoodCuFiles ==
    {f \in DOMAIN dir :
        /\ EndsWith(f, TXT) /\ Contains(f, Cu)
        /\ dir[f].readable /\ TIME \in dir[f].columns /\ CURRENT \in dir[f].columns}

\* C6: when the directory holds a readable 'Cu' file with both columns, every pH
\* panel ends with exactly one 'Cu Reference' curve, from the last such file in
\* sorted order, drawn first, the first system curve having style index 0; and
\* no 'Cu' file is a member of a pH group.
C6_ReferenceOnEachPanel ==
    (dir_exists /\ caj_pc \in {"done", "aborted"}) =>
        /\ GoodCuFiles # {} =>
              \A p \in 1..Len(ph_keys) :
                 /\ p <= Len(axes)
                 /\ {k \in 1..Len(axes[p]) : axes[p][k].label = Cu_Reference} = {1}
                 /\ axes[p][1].file = sorted(GoodCuFiles)[Cardinality(GoodCuFiles)]
                 /\ Len(axes[p]) >= 2 =>
                       StyleOf(axes[p][2]) = <<markers_j[1], linestyles_j[1]>>
        /\ \A key \in DOMAIN grouped_files :
              \A m \in 1..Len(grouped_files[key]) :
                 ~Contains(basename(grouped_files[key][m]), Cu)

\* the file the grouping loop of generate_ca_subplots has just handled, once
\* generate_styled_plot has run on the same directory
JustGrouped == all_files_j[caj_i - 1]

InPhGroup(f) ==
    \E key \in DOMAIN grouped_files :
       \E m \in 1..Len(grouped_files[key]) :
          grouped_files[key][m] = join(data_directory, f)

SameTreatment(f) ==
    /\ (plot_label[f] \notin {None, Cu}) <=> InPhGroup(f)
    /\ (plot_label[f] = Cu) <=> (cu_ref_path = join(data_directory, f))

BothRan == dir_exists /\ ca_pc = "done" /\ caj_pc = "group" /\ caj_i > 1

\* C8 as claimed: for every .txt file name the two scripts agree: a pH system
\* curve in one exactly when a pH group member in the other, the 'Cu' curve in
\* one exactly when a reference candidate in the other.
C8_SameNamingConvention == BothRan => SameTreatment(JustGrouped)

\* the names on which the two conventions can differ
BothCuAndPh(f) == Contains(f, Cu) /\ Contains(f, <<"p","H">>)
PhWithoutLabel(f) == search_ph(f).matched /\ ~search_label(f).matched

\* C8 as amended: the two scripts agree on every .txt file name that does not
\* contain both 'Cu' and 'pH' and does not match pH<digits> without matching
\* pH<digits>_<label>.txt.
C8_SameConventionOnPlainNames ==
    (BothRan /\ ~BothCuAndPh(JustGrouped) /\ ~PhWithoutLabel(JustGrouped))
        => SameTreatment(JustGrouped)

\* C8's case: a plain pH system file grouped after a reference candidate was seen
C8_Witness ==
    /\ BothRan
    /\ ~BothCuAndPh(JustGrouped) /\ ~PhWithoutLabel(JustGrouped)
    /\ InPhGroup(JustGrouped)
    /\ plot_label[JustGrouped] \notin {None, Cu}
    /\ cu_ref_path # None
    /\ plot_label[basename(cu_ref_path)] = Cu

----------------------------------------------------------------------------
(* plot_eis.py *)

\* the most files in 'EIS/'
MaxEisFiles == 2

DATA_DIR == <<"E","I","S","/">>

FREQ == "Frequency (Hz)"
ZRE == "Z' (Ohm)"
ZIM == "-Z'' (Ohm)"
ZMOD == "Z (Ohm)"
PHASE == "-Phase (deg)"

\* what pd.read_csv(path, sep=';') finds: a Nyquist-and-Bode export, one half of
\* a split pair, or nothing readable
BothHalves == [readable |-> TRUE, columns |-> {FREQ, ZRE, ZIM, ZMOD, PHASE}]
NyquistHalf == [readable |-> TRUE, columns |-> {FREQ, ZRE, ZIM}]
BodeHalf == [readable |-> TRUE, columns |-> {FREQ, ZMOD, PHASE}]
NoFrame == [readable |-> FALSE, columns |-> {}]
EisContents == {BothHalves, NyquistHalf, BodeHalf, NoFrame}

E_1_KReO4_pH1_OCP_N ==
    <<"1","_","K","R","e","O","4"," ","p","H"," ","1"," ","O","C","P"," ",
      "(","N","y","q","u","i","s","t",")",".","t","x","t">>
E_1_KReO4_pH1_OCP_B ==
    <<"1","_","K","R","e","O","4"," ","p","H"," ","1"," ","O","C","P"," ",
      "(","B","o","d","e",")",".","t","x","t">>
E_2_KReO4_pH1_OCP_NB ==
    <<"2","_","K","R","e","O","4"," ","p","H"," ","1"," ","O","C","P"," ",
      "(","N","y","q","u","i","s","t"," ","a","n","d"," ","B","o","d","e",")",
      ".","t","x","t">>
E_1_KReO4_pH4_OCP_B ==
    <<"1","_","K","R","e","O","4"," ","p","H"," ","4"," ","O","C","P"," ",
      "(","B","o","d","e",")",".","t","x","t">>
E_3_NH4ReO4_pH2_FAR_B ==
    <<"3","_","N","H","4","R","e","O","4"," ","p","H"," ","2"," ","F","A","R"," ",
      "(","B","o","d","e",")",".","t","x","t">>
E_Cu_CAP_NB ==
    <<"C","u"," ","C","A","P"," ","(","N","y","q","u","i","s","t"," ","a","n","d"," ",
      "B","o","d","e",")",".","t","x","t">>
E_KReO4_Na2SO4_CAP_B ==
    <<"K","R","e","O","4"," ","+"," ","N","a","2","S","O","4"," ","C","A","P"," ",
      "(","B","o","d","e",")",".","t","x","t">>

EisPool == {E_1_KReO4_pH1_OCP_N, E_1_KReO4_pH1_OCP_B, E_2_KReO4_pH1_OCP_NB,
            E_1_KReO4_pH4_OCP_B, E_3_NH4ReO4_pH2_FAR_B, E_Cu_CAP_NB,
            E_KReO4_Na2SO4_CAP_B, notes_txt}

EisDirs ==
    UNION {[S -> EisContents] :
           S \in {T \in SUBSET EisPool : Cardinality(T) <= MaxEisFiles}}

OCP == <<"O","C","P">>
CAP == <<"C","A","P">>
FAR == <<"F","A","R">>
NA == <<"N","/","A">>
KReO4_Na2SO4 == <<"K","R","e","O","4"," ","+"," ","N","a","2","S","O","4">>

Conditions == {OCP, CAP, FAR}
PlotTypes == {<<"N","y","q","u","i","s","t">>, <<"B","o","d","e">>,
              <<"N","y","q","u","i","s","t"," ","a","n","d"," ","B","o","d","e">>}

\* \s at position i
SpaceAt(s, i) == At(s, <<" ">>, i)

\* (OCP|CAP|FAR)\s\((Nyquist|Bode|Nyquist and Bode)\) at position t
TailAt(s, t) ==
    /\ \E c \in Conditions : At(s, c, t)
    /\ SpaceAt(s, t + 3)
    /\ \E ty \in PlotTypes : At(s, <<"(">> \o ty \o <<")">>, t + 4)

\* (pH\s\d+)\s and then the tail, at position r, \d+ taking d digits
PhTailWith(s, r, d) ==
    /\ At(s, <<"p","H">>, r)
    /\ SpaceAt(s, r + 2)
    /\ d >= 1
    /\ SpaceAt(s, r + 3 + d)
    /\ TailAt(s, r + 4 + d)

PhTailAt(s, r) == PhTailWith(s, r, DigitRun(s, r + 3))

\* where (.+?) may end, (\d+)_ having taken n digits: a space follows, and then
\* the optional pH group and the tail
ChemicalStops(filename, n) ==
    {e \in (n + 2)..Len(filename) :
        /\ SpaceAt(filename, e + 1)
        /\ (PhTailAt(filename, e + 2) \/ TailAt(filename, e + 2))}

\* match.groups() without the plot type, the chemical ending at e, the pH being
\* None when the optional group took nothing
MatchGroups(filename, n, e, has_ph, d) ==
    [matched |-> TRUE,
     parts |-> <<SubSeq(filename, 1, n),
                 SubSeq(filename, n + 2, e),
                 IF has_ph THEN SubSeq(filename, e + 2, e + 4 + d) ELSE None,
                 IF has_ph THEN SubSeq(filename, e + 6 + d, e + 8 + d)
                 ELSE SubSeq(filename, e + 2, e + 4)>>]

\* the match with (\d+) of n digits: (.+?) takes the shortest chemical
MatchFrom(filename, n, stops) ==
    IF n >= 1 /\ At(filename, <<"_">>, n + 1) /\ stops # {}
    THEN MatchGroups(filename, n, Min(stops), PhTailAt(filename, Min(stops) + 2),
                     DigitRun(filename, Min(stops) + 5))
    ELSE [matched |-> FALSE, parts |-> <<None, None, None, None>>]

\* pattern.match(filename)
pattern_match(filename) ==
    MatchFrom(filename, DigitRun(filename, 1),
              ChemicalStops(filename, DigitRun(filename, 1)))

\* re.search(r"(OCP|CAP|FAR)", filename): [matched, group]
ConditionStarts(filename) ==
    {i \in 1..Len(filename) : \E c \in Conditions : At(filename, c, i)}

ConditionFrom(filename, starts) ==
    IF starts = {} THEN [matched |-> FALSE, group |-> None]
    ELSE [matched |-> TRUE, group |-> SubSeq(filename, Min(starts), Min(starts) + 2)]

search_condition(filename) == ConditionFrom(filename, ConditionStarts(filename))

\* the mutant of experiment_id: the pH is left out of the id
experiment_id_NoPh(p0, p1, p2, p3) == p0 \o <<"_">> \o p1 \o <<" ">> \o p3

\* line 35: f"{parts[0]}_{parts[1]} {parts[2]} {parts[3]}"
experiment_id(p0, p1, p2, p3) ==
    p0 \o <<"_">> \o p1 \o <<" ">>
       \o (IF p2 = None THEN <<"N","o","n","e">> ELSE p2) \o <<" ">> \o p3

NoParse == [ok |-> FALSE, id |-> None, chemical |-> None, ph |-> None,
            condition |-> None]

\* lines 30-63, with the two matches made
ParseWith(filename, match, condition_match) ==
    IF match.matched
    THEN [ok |-> TRUE,
          id |-> experiment_id(match.parts[1], match.parts[2], match.parts[3],
                               match.parts[4]),
          chemical |-> strip(match.parts[2]),
          ph |-> IF match.parts[3] # None THEN match.parts[3] ELSE NA,
          condition |-> match.parts[4]]
    ELSE IF Contains(filename, Cu) /\ condition_match.matched
    THEN [ok |-> TRUE,
          id |-> Cu \o <<"_">> \o condition_match.group,
          chemical |-> Cu,
          ph |-> NA,
          condition |-> condition_match.group]
    ELSE IF Contains(filename, KReO4_Na2SO4) /\ condition_match.matched
    THEN [ok |-> TRUE,
          id |-> KReO4_Na2SO4 \o <<"_">> \o condition_match.group,
          chemical |-> KReO4_Na2SO4,
          ph |-> NA,
          condition |-> condition_match.group]
    ELSE NoParse

ParseName(filename) ==
    ParseWith(filename, pattern_match(filename), search_condition(filename))

parse_filename(filepath) == ParseName(basename(filepath))

\* lines 75-77: experiment_files[parsed_info['id']].append(filepath)
Filed(files, filepath, parsed_info) ==
    IF parsed_info.ok
    THEN [x \in DOMAIN files \cup {parsed_info.id} |->
            IF x = parsed_info.id
            THEN Append(IF x \in DOMAIN files THEN files[x] ELSE <<>>, filepath)
            ELSE files[x]]
    ELSE files

\* the keys of experiment_files after that, in insertion order
FiledIds(ids, parsed_info) ==
    IF parsed_info.ok /\ parsed_info.id \notin {ids[k] : k \in 1..Len(ids)}
    THEN Append(ids, parsed_info.id)
    ELSE ids

GroupKey(parsed_info) == <<parsed_info.ph, parsed_info.condition, parsed_info.chemical>>

\* lines 82-87: grouped_plots[ph][condition][chemical].extend(file_list)
Extended(groups, file_list, parsed_info) ==
    IF parsed_info.ok
    THEN [x \in DOMAIN groups \cup {GroupKey(parsed_info)} |->
            IF x = GroupKey(parsed_info)
            THEN (IF x \in DOMAIN groups THEN groups[x] ELSE <<>>) \o file_list
            ELSE groups[x]]
    ELSE groups

\* glob.glob(os.path.join(data_dir, '*.txt')), as a set: its order is the
\* file system's
glob_txt == {join(DATA_DIR, f) : f \in {g \in DOMAIN eis_dir : EndsWith(g, TXT)}}

\* the union of the columns: pd.merge(a, b, on="Frequency (Hz)", how="outer",
\* suffixes=('', '_y')) without the columns that end in '_y'
merged(a, b) == a.columns \cup b.columns

\* load_eis_data(file_list): [ok, columns]; not ok is None
load_eis_data(file_list) ==
    LET df(k) == eis_dir[basename(file_list[k])]
        nothing == [ok |-> FALSE, columns |-> {}]
    IN IF Len(file_list) = 1
       THEN IF df(1).readable THEN [ok |-> TRUE, columns |-> df(1).columns]
            ELSE nothing
       ELSE IF Len(file_list) = 2
       THEN IF ~df(1).readable \/ ~df(2).readable THEN nothing
            \* pd.merge raises KeyError without the key column on a side
            ELSE IF FREQ \notin df(1).columns \/ FREQ \notin df(2).columns THEN nothing
            ELSE IF ZRE \notin df(2).columns
            THEN [ok |-> TRUE, columns |-> merged(df(1), df(2))]
            ELSE [ok |-> TRUE, columns |-> merged(df(2), df(1))]
       ELSE nothing

ROWS == <<<<"p","H"," ","1">>, <<"p","H"," ","4">>, <<"p","H"," ","6">>>>
COLS == <<OCP, CAP, FAR>>
Panels == 1..(Len(ROWS) * Len(COLS))
RowOf(n) == ROWS[((n - 1) \div Len(COLS)) + 1]
ColOf(n) == COLS[((n - 1) % Len(COLS)) + 1]

\* sorted(experiments_to_plot.items()) of panel n, as the chemicals in order
experiments_to_plot(n) ==
    sorted({key[3] : key \in {k \in DOMAIN grouped_plots :
                                 k[1] = RowOf(n) /\ k[2] = ColOf(n)}})

\* lines 124-142 and 72-74: the style map, the call of group_files_by_experiment
\* up to its glob, the three figures
EIS_Start ==
    /\ eis_pc = "start"
    /\ eis_pending' = glob_txt
    /\ axes_nyquist' = [n \in Panels |-> <<>>]
    /\ axes_bode1' = [n \in Panels |-> <<>>]
    /\ axes_bode2' = [n \in Panels |-> <<>>]
    /\ eis_pc' = "glob"
    /\ UNCHANGED <<eis_dir, experiment_ids, experiment_files, eis_n, grouped_plots,
                   eis_panel, eis_k, eis_saved, dir_exists, dir, caVars, cajVars, lsvVars>>

\* lines 74-77: one iteration over the glob, which yields the paths in any order
EIS_Glob ==
    /\ eis_pc = "glob"
    /\ \E filepath \in eis_pending :
          /\ eis_pending' = eis_pending \ {filepath}
          /\ experiment_files' = Filed(experiment_files, filepath, parse_filename(filepath))
          /\ experiment_ids' = FiledIds(experiment_ids, parse_filename(filepath))
    /\ UNCHANGED <<eis_dir, eis_pc, eis_n, grouped_plots, eis_panel, eis_k,
                   axes_nyquist, axes_bode1, axes_bode2, eis_saved,
                   dir_exists, dir, caVars, cajVars, lsvVars>>

\* lines 81-87: one iteration over experiment_files.values()
EIS_Regroup ==
    /\ eis_pc = "glob" /\ eis_pending = {} /\ eis_n <= Len(experiment_ids)
    /\ grouped_plots' =
          Extended(grouped_plots, experiment_files[experiment_ids[eis_n]],
                   parse_filename(experiment_files[experiment_ids[eis_n]][1]))
    /\ eis_n' = eis_n + 1
    /\ UNCHANGED <<eis_dir, eis_pc, eis_pending, experiment_ids, experiment_files,
                   eis_panel, eis_k, axes_nyquist, axes_bode1, axes_bode2, eis_saved,
                   dir_exists, dir, caVars, cajVars, lsvVars>>

\* line 89: group_files_by_experiment returns
EIS_Grouped ==
    /\ eis_pc = "glob" /\ eis_pending = {} /\ eis_n > Len(experiment_ids)
    /\ eis_pc' = "plot"
    /\ eis_panel' = 1
    /\ eis_k' = 1
    /\ UNCHANGED <<eis_dir, eis_pending, experiment_ids, experiment_files, eis_n,
                   grouped_plots, axes_nyquist, axes_bode1, axes_bode2, eis_saved,
                   dir_exists, dir, caVars, cajVars, lsvVars>>

\* lines 155-162: one experiment of the panel; a missing column raises KeyError,
\* which nothing catches
EIS_Experiment ==
    /\ eis_pc = "plot" /\ eis_panel \in Panels
    /\ eis_k <= Len(experiments_to_plot(eis_panel))
    /\ LET chemical == experiments_to_plot(eis_panel)[eis_k]
           file_list == grouped_plots[<<RowOf(eis_panel), ColOf(eis_panel), chemical>>]
           df == load_eis_data(file_list)
           nyquist == ZRE \in df.columns /\ ZIM \in df.columns
           bode1 == FREQ \in df.columns /\ ZMOD \in df.columns
           bode2 == FREQ \in df.columns /\ PHASE \in df.columns
       IN /\ axes_nyquist' =
                IF df.ok /\ nyquist
                THEN [axes_nyquist EXCEPT ![eis_panel] =
                        Append(@, [label |-> chemical, files |-> file_list])]
                ELSE axes_nyquist
          /\ axes_bode1' =
                IF df.ok /\ nyquist /\ bode1
                THEN [axes_bode1 EXCEPT ![eis_panel] =
                        Append(@, [label |-> chemical, files |-> file_list])]
                ELSE axes_bode1
          /\ axes_bode2' =
                IF df.ok /\ nyquist /\ bode1 /\ bode2
                THEN [axes_bode2 EXCEPT ![eis_panel] =
                        Append(@, [label |-> chemical, files |-> file_list])]
                ELSE axes_bode2
          /\ eis_pc' = IF df.ok /\ ~(nyquist /\ bode1 /\ bode2) THEN "aborted"
                       ELSE eis_pc
    /\ eis_k' = eis_k + 1
    /\ UNCHANGED <<eis_dir, eis_pending, experiment_ids, experiment_files, eis_n,
                   grouped_plots, eis_panel, eis_saved,
                   dir_exists, dir, caVars, cajVars, lsvVars>>

\* lines 164-185: the labels, the grid and the legends of the panel
EIS_PanelFormat ==
    /\ eis_pc = "plot" /\ eis_panel \in Panels
    /\ eis_k > Len(experiments_to_plot(eis_panel))
    /\ eis_panel' = eis_panel + 1
    /\ eis_k' = 1
    /\ UNCHANGED <<eis_dir, eis_pc, eis_pending, experiment_ids, experiment_files,
                   eis_n, grouped_plots, axes_nyquist, axes_bode1, axes_bode2,
                   eis_saved, dir_exists, dir, caVars, cajVars, lsvVars>>

\* lines 187-199: the three figures are saved (the output files are writable)
EIS_Save ==
    /\ eis_pc = "plot" /\ eis_panel \notin Panels
    /\ eis_saved' = {"eis_nyquist_plots.tiff", "eis_bode1_plots.tiff",
                     "eis_bode2_plots.tiff"}
    /\ eis_pc' = "done"
    /\ UNCHANGED <<eis_dir, eis_pending, experiment_ids, experiment_files, eis_n,
                   grouped_plots, eis_panel, eis_k, axes_nyquist, axes_bode1,
                   axes_bode2, dir_exists, dir, caVars, cajVars, lsvVars>>

EIS_Init ==
    /\ eis_dir \in EisDirs
    /\ eis_pc = "start"
    /\ eis_pending = {}
    /\ experiment_ids = <<>>
    /\ experiment_files = <<>>
    /\ eis_n = 1
    /\ grouped_plots = <<>>
    /\ eis_panel = 1
    /\ eis_k = 1
    /\ axes_nyquist = <<>>
    /\ axes_bode1 = <<>>
    /\ axes_bode2 = <<>>
    /\ eis_saved = {}

InitEIS == CAs_Off /\ EIS_Init /\ LSV_Off

NextEIS ==
    \/ EIS_Start
    \/ EIS_Glob
    \/ EIS_Regroup
    \/ EIS_Grouped
    \/ EIS_Experiment
    \/ EIS_PanelFormat
    \/ EIS_Save

SpecEIS == InitEIS /\ [][NextEIS]_vars

----------------------------------------------------------------------------
(* Claims about plot_eis.py, under SpecEIS *)

\* group_files_by_experiment has returned
Grouped == eis_pc \in {"plot", "done", "aborted"}

\* where a path stands in the result of group_files_by_experiment
Places(filepath) ==
    {pl \in UNION {{<<key, m>> : m \in 1..Len(grouped_plots[key])} :
                   key \in DOMAIN grouped_plots} :
        grouped_plots[pl[1]][pl[2]] = filepath}

\* C7: the result of group_files_by_experiment partitions the parseable files:
\* each stands exactly once, under the (ph, condition, chemical) of its own
\* parse_filename result, an unparseable file stands nowhere, and nothing else
\* stands in it; two files of one id have the same chemical, ph and condition.
C7_GroupingPartitionsParseableFiles ==
    Grouped =>
        /\ \A f \in glob_txt :
              IF parse_filename(f).ok
              THEN /\ Cardinality(Places(f)) = 1
                   /\ \A pl \in Places(f) : pl[1] = GroupKey(parse_filename(f))
              ELSE Places(f) = {}
        /\ \A key \in DOMAIN grouped_plots :
              \A m \in 1..Len(grouped_plots[key]) : grouped_plots[key][m] \in glob_txt
        /\ \A f, g \in glob_txt :
              (/\ parse_filename(f).ok
               /\ parse_filename(g).ok
               /\ parse_filename(f).id = parse_filename(g).id)
                 => GroupKey(parse_filename(f)) = GroupKey(parse_filename(g))

\* C7's case: the grouping has put two parseable files under one key
C7_Witness ==
    /\ Grouped
    /\ \E key \in DOMAIN grouped_plots : Len(grouped_plots[key]) = 2
    /\ \E f \in glob_txt : parse_filename(f).ok

DrawnOn(ax, file_list) ==
    \E n \in Panels : \E k \in 1..Len(ax[n]) : ax[n][k].files = file_list

\* C2: when plot_eis_data has saved its figures, every experiment of
\* grouped_plots whose file list loads is a series of some panel of each of the
\* three figures, the experiments of ph 'N/A' and of a pH other than 1, 4, 6
\* included.
C2_AllExperimentsDrawn ==
    eis_pc = "done" =>
        \A key \in DOMAIN grouped_plots :
            load_eis_data(grouped_plots[key]).ok =>
                /\ DrawnOn(axes_nyquist, grouped_plots[key])
                /\ DrawnOn(axes_bode1, grouped_plots[key])
                /\ DrawnOn(axes_bode2, grouped_plots[key])

\* the frame of an experiment has every column plot_eis_data plots
Plottable(file_list) ==
    /\ load_eis_data(file_list).ok
    /\ {FREQ, ZRE, ZIM, ZMOD, PHASE} \subseteq load_eis_data(file_list).columns

\* C3, for plot_eis_data: at the end of the run the three figures are saved, and
\* every experiment of a pH 1, 4 or 6 panel is drawn on all three figures if its
\* frame has the plotted columns and on none of them otherwise.
C3_EisSkipsAndContinues ==
    eis_pc \in {"done", "aborted"} =>
        /\ Cardinality(eis_saved) = 3
        /\ \A key \in DOMAIN grouped_plots :
              (\E n \in Panels : key[1] = RowOf(n) /\ key[2] = ColOf(n)) =>
                 IF Plottable(grouped_plots[key])
                 THEN /\ DrawnOn(axes_nyquist, grouped_plots[key])
                      /\ DrawnOn(axes_bode1, grouped_plots[key])
                      /\ DrawnOn(axes_bode2, grouped_plots[key])
                 ELSE /\ ~DrawnOn(axes_nyquist, grouped_plots[key])
                      /\ ~DrawnOn(axes_bode1, grouped_plots[key])
                      /\ ~DrawnOn(axes_bode2, grouped_plots[key])

----------------------------------------------------------------------------
(* plot_lsv.py *)

lsv_data_directory == <<"L","S","V","/">>

POTENTIAL == "Potential applied (V)"

\* what pd.read_csv(path, delimiter='\t', header=0) finds
LsvFull == [readable |-> TRUE, columns |-> {POTENTIAL, CURRENT}]
LsvNoCurrent == [readable |-> TRUE, columns |-> {POTENTIAL}]
LsvUnreadable == [readable |-> FALSE, columns |-> {}]
LsvContents == {LsvFull, LsvNoCurrent, LsvUnreadable}

LSV_Reference_Cu == <<"L","S","V","_","R","e","f","e","r","e","n","c","e"," ","C","u">>
LSV_pH1_K2ReCl6 == <<"L","S","V","_","p","H"," ","1","_","K","2","R","e","C","l","6">>
LSV_pH4_K2ReCl6 == <<"L","S","V","_","p","H"," ","4","_","K","2","R","e","C","l","6">>
LSV_pH1_KReO4 == <<"L","S","V","_","p","H"," ","1","_","K","R","e","O","4">>
LSV_pH2_NH4ReO4 == <<"L","S","V","_","p","H"," ","2","_","N","H","4","R","e","O","4">>

LsvPool == {LSV_Reference_Cu, LSV_pH1_K2ReCl6, LSV_pH4_K2ReCl6, LSV_pH1_KReO4,
            LSV_pH2_NH4ReO4}

LsvDirs == UNION {[S -> LsvContents] : S \in SUBSET LsvPool}

chemicals == <<<<"K","2","R","e","C","l","6">>, <<"K","R","e","O","4">>,
               <<"N","H","4","R","e","O","4">>>>

\* lines 21-27: style_map.get(ph_value, default_style)
style_map(ph_value) ==
    IF ph_value = <<"p","H"," ","1">>
    THEN [color |-> "red", marker |-> "o", linestyle |-> "-"]
    ELSE IF ph_value = <<"p","H"," ","4">>
    THEN [color |-> "blue", marker |-> "s", linestyle |-> "--"]
    ELSE IF ph_value = <<"p","H"," ","6">>
    THEN [color |-> "green", marker |-> "^", linestyle |-> ":"]
    ELSE [color |-> "black", marker |-> "x", linestyle |-> "-."]

\* sorted(glob.glob(os.path.join(data_directory, f'LSV_pH*_{chemical}*')))
lsv_glob(chemical) ==
    sorted({join(lsv_data_directory, f) :
              f \in {g \in DOMAIN lsv_dir :
                       /\ At(g, <<"L","S","V","_","p","H">>, 1)
                       /\ \E i \in 7..Len(g) : At(g, <<"_">> \o chemical, i)}})

\* filename.split('_')[1], "Unknown pH" when there is no '_'
SplitSecond(filename, cuts) ==
    IF cuts = {} THEN <<"U","n","k","n","o","w","n"," ","p","H">>
    ELSE SubSeq(filename, Min(cuts) + 1,
                Min({c \in cuts \cup {Len(filename) + 1} : c > Min(cuts)}) - 1)

ph_value_of(filename) ==
    SplitSecond(filename, {i \in 1..Len(filename) : filename[i] = "_"})

cu_ref_path_lsv == join(lsv_data_directory, LSV_Reference_Cu)

\* lines 38-46 and 63-72: read one file and plot it; a file that cannot be read
\* or has not both columns raises, and nothing catches it
LsvPlot(file_path, label, style, drawn) ==
    IF /\ lsv_dir[basename(file_path)].readable
       /\ CURRENT \in lsv_dir[basename(file_path)].columns
       /\ POTENTIAL \in lsv_dir[basename(file_path)].columns
    THEN [raised |-> FALSE,
          curves |-> Append(drawn, [file |-> basename(file_path), label |-> label,
                                    style |-> style])]
    ELSE [raised |-> TRUE, curves |-> drawn]

\* lines 16-32: the styles, the figure, the reference path
LSV_Start ==
    /\ lsv_pc = "start"
    /\ lsv_axes' = [n \in 1..Len(chemicals) |-> <<>>]
    /\ lsv_panel' = 1
    /\ lsv_pc' = "panel"
    /\ UNCHANGED <<lsv_dir, file_paths, lsv_k, lsv_saved, dir_exists, dir, caVars,
                   cajVars, eisVars>>

\* lines 37-50: the reference curve of the panel, then the files of its chemical
LSV_Reference ==
    /\ lsv_pc = "panel" /\ lsv_panel <= Len(chemicals)
    /\ IF basename(cu_ref_path_lsv) \in DOMAIN lsv_dir
       THEN LET r == LsvPlot(cu_ref_path_lsv,
                             <<"R","e","f","e","r","e","n","c","e"," ","C","u">>,
                             [color |-> "gray", marker |-> "None", linestyle |-> "--"],
                             lsv_axes[lsv_panel])
            IN /\ lsv_axes' = [lsv_axes EXCEPT ![lsv_panel] = r.curves]
               /\ lsv_pc' = IF r.raised THEN "aborted" ELSE "files"
       ELSE /\ lsv_axes' = lsv_axes
            /\ lsv_pc' = "files"
    /\ file_paths' = IF lsv_pc' = "files" THEN lsv_glob(chemicals[lsv_panel])
                     ELSE file_paths
    /\ lsv_k' = 1
    /\ UNCHANGED <<lsv_dir, lsv_panel, lsv_saved, dir_exists, dir, caVars, cajVars,
                   eisVars>>

\* lines 53-72: one file of the panel
LSV_File ==
    /\ lsv_pc = "files" /\ lsv_k <= Len(file_paths)
    /\ LET r == LsvPlot(file_paths[lsv_k],
                        ph_value_of(basename(file_paths[lsv_k])),
                        style_map(ph_value_of(basename(file_paths[lsv_k]))),
                        lsv_axes[lsv_panel])
       IN /\ lsv_axes' = [lsv_axes EXCEPT ![lsv_panel] = r.curves]
          /\ lsv_pc' = IF r.raised THEN "aborted" ELSE lsv_pc
    /\ lsv_k' = lsv_k + 1
    /\ UNCHANGED <<lsv_dir, lsv_panel, file_paths, lsv_saved, dir_exists, dir, caVars,
                   cajVars, eisVars>>

\* lines 75-78: the title, the grid and the legend of the panel
LSV_Format ==
    /\ lsv_pc = "files" /\ lsv_k > Len(file_paths)
    /\ lsv_panel' = lsv_panel + 1
    /\ lsv_pc' = "panel"
    /\ UNCHANGED <<lsv_dir, file_paths, lsv_k, lsv_axes, lsv_saved, dir_exists, dir,
                   caVars, cajVars, eisVars>>

\* lines 80-84: the figure is saved (the output file is writable)
LSV_Save ==
    /\ lsv_pc = "panel" /\ lsv_panel > Len(chemicals)
    /\ lsv_saved' = TRUE
    /\ lsv_pc' = "done"
    /\ UNCHANGED <<lsv_dir, lsv_panel, file_paths, lsv_k, lsv_axes, dir_exists, dir,
                   caVars, cajVars, eisVars>>

LSV_Init ==
    /\ lsv_dir \in LsvDirs
    /\ lsv_pc = "start"
    /\ lsv_panel = 1
    /\ file_paths = <<>>
    /\ lsv_k = 1
    /\ lsv_axes = <<>>
    /\ lsv_saved = FALSE

InitLSV == CAs_Off /\ EIS_Off /\ LSV_Init

NextLSV ==
    \/ LSV_Start
    \/ LSV_Reference
    \/ LSV_File
    \/ LSV_Format
    \/ LSV_Save

SpecLSV == InitLSV /\ [][NextLSV]_vars

----------------------------------------------------------------------------
(* Claims about plot_lsv.py, under SpecLSV *)

LsvGood(f) ==
    lsv_dir[f].readable /\ {POTENTIAL, CURRENT} \subseteq lsv_dir[f].columns

LsvDrawn(n, f) == \E k \in 1..Len(lsv_axes[n]) : lsv_axes[n][k].file = f

\* C3: a data file that cannot be read or has not a plotted column is skipped,
\* every other file is still plotted, and the figure is still saved: at the end
\* of plot_lsv_data the figure is saved, and on every panel a file of the
\* panel's chemical is drawn exactly when it is readable with both columns.
C3_SkipsAndContinues ==
    lsv_pc \in {"done", "aborted"} =>
        /\ lsv_saved
        /\ \A n \in 1..Len(chemicals) :
              \A k \in 1..Len(lsv_glob(chemicals[n])) :
                 LsvGood(basename(lsv_glob(chemicals[n])[k]))
                    <=> LsvDrawn(n, basename(lsv_glob(chemicals[n])[k]))

====
